---- MODULE Spec2Model ----
(***************************************************************************)
(* Model of the nettarkivet CDX lookup tools: the Streamlit app and the    *)
(* old CLI of app.py, and the script check-URLs-count.py.                  *)
(*                                                                         *)
(* Text is modelled as a sequence of one-token strings.  In an input file  *)
(* or a pasted text the tokens are "a" (any URL character), " " (a blank)  *)
(* and "\n" (a line end).  In a response body the tokens are "R" (the      *)
(* complete text of one JSON object with a non-empty timestamp field),     *)
(* "x" (any other non-whitespace text: malformed JSON, a non-object JSON   *)
(* value, an object without timestamp), " " and "\n".  Input files hold    *)
(* valid UTF-8, so decoding keeps every token.                             *)
(***************************************************************************)
EXTENDS Naturals, Sequences, FiniteSets

VARIABLES
    entry,             \* which program runs: "main", "cli_main" (app.py) or "check_main"
    pc,                \* position of the program
    f,                 \* the input file: [uploaded, data], data = the part not yet read
    pasted_urls_text,  \* content of the text area (main only)
    urls,              \* the cleaned URL list
    i,                 \* number of the loop iteration in progress (0 before the loop)
    resp,              \* answer of the index to the lookup in progress
    count,             \* the local variable count
    results,           \* the rows recorded so far
    progress,          \* calls of progress_bar.progress so far, as <<completed, total>>
    requests,          \* the GET requests issued so far (their URLs), in order
    raised,            \* per finished lookup: did count_cdx_hits raise
    messages,          \* what was printed / shown as status element
    report             \* the CSV file or the table and Excel sheet written at the end

vars == <<entry, pc, f, pasted_urls_text, urls, i, resp, count, results,
          progress, requests, raised, messages, report>>

---------------------------------------------------------------------------
(* Bounds of the model *)

MaxFile == 3
MaxPaste == 2
MaxBody == 3

(* Program constants *)

CDX_BASE == "https://nettarkivet.nb.no/search/cdx"
REPLAY_BASE == "https://nettarkivet.nb.no/search/*/"
max_rows_to_display == 800

---------------------------------------------------------------------------
(* Text *)

SP == " "
NL == "\n"
Whitespace == {SP, NL}
InputTokens == {"a", SP, NL}
BodyTokens == {"R", "x", SP, NL}

Texts(tokens, max) == UNION {[1..n -> tokens] : n \in 0..max}

Min(a, b) == IF a <= b THEN a ELSE b

Tail2(s, k) == SubSeq(s, k + 1, Len(s))

RECURSIVE lstrip(_)
lstrip(s) ==
    IF s # <<>> /\ Head(s) \in Whitespace THEN lstrip(Tail(s)) ELSE s

RECURSIVE rstrip(_)
rstrip(s) ==
    IF s # <<>> /\ s[Len(s)] \in Whitespace
    THEN rstrip(SubSeq(s, 1, Len(s) - 1))
    ELSE s

strip(s) == rstrip(lstrip(s))

\* index of the first line end of s, 0 when there is none
FirstNL(s) ==
    IF \E k \in 1..Len(s) : s[k] = NL
    THEN CHOOSE k \in 1..Len(s) : s[k] = NL /\ \A j \in 1..(k - 1) : s[j] # NL
    ELSE 0

\* str.splitlines(): the lines without their line ends; no empty last line
RECURSIVE splitlines(_)
splitlines(s) ==
    IF s = <<>> THEN <<>>
    ELSE LET k == FirstNL(s) IN
         IF k = 0 THEN <<s>>
         ELSE <<SubSeq(s, 1, k - 1)>> \o splitlines(Tail2(s, k))

\* iterating a file object: the lines with their line ends
RECURSIVE file_lines(_)
file_lines(s) ==
    IF s = <<>> THEN <<>>
    ELSE LET k == FirstNL(s) IN
         IF k = 0 THEN <<s>>
         ELSE <<SubSeq(s, 1, k)>> \o file_lines(Tail2(s, k))

\* urllib.parse.quote_plus on the tokens of the model
quote_char(c) == IF c = SP THEN "+" ELSE c

quote_plus(s) == [k \in 1..Len(s) |-> quote_char(s[k])]

---------------------------------------------------------------------------
(* The index *)

\* What one GET can come to: requests.get raises (timeout, no connection),
\* or a response arrives with a status code and a body.
Failures == {[kind |-> k, status_code |-> 0, text |-> <<>>] :
                k \in {"Timeout", "ConnectionError"}}

ErrorBodies == {<<>>, <<"R">>}

Responses ==
    Failures
    \cup {[kind |-> "response", status_code |-> 200, text |-> t] :
             t \in Texts(BodyTokens, MaxBody)}
    \cup {[kind |-> "response", status_code |-> c, text |-> t] :
             c \in {404, 500}, t \in ErrorBodies}

NoResponse == [kind |-> "none", status_code |-> 0, text |-> <<>>]

Return(n) == [raised |-> "None", value |-> n]
Raise(e) == [raised |-> e, value |-> 0]

\* requests.get(cdx_url, timeout=30)
requests_get(r) == IF r.kind = "response" THEN Return(0) ELSE Raise(r.kind)

\* Response.raise_for_status()
raise_for_status(r) ==
    IF r.status_code >= 400 /\ r.status_code < 600
    THEN Raise("HTTPError")
    ELSE Return(0)

\* sum(1 for line in lines if line.strip())
RECURSIVE sum_nonblank(_)
sum_nonblank(lines) ==
    IF lines = <<>> THEN 0
    ELSE (IF strip(Head(lines)) # <<>> THEN 1 ELSE 0) + sum_nonblank(Tail(lines))

---------------------------------------------------------------------------
(* app.py *)

build_cdx_url(original_url) ==
    <<CDX_BASE, "?", "url", "=">> \o quote_plus(original_url)
        \o <<"&", "output", "=", "json">>

\* variant: the URL is percent-encoded on its way into the link
build_replay_url_quoted(original_url) == <<REPLAY_BASE>> \o quote_plus(original_url)

build_replay_url(original_url) == <<REPLAY_BASE>> \o original_url

\* variant: every line of the body is counted, blank or not
count_cdx_hits_all_lines(r) ==
    IF requests_get(r).raised # "None" THEN requests_get(r)
    ELSE IF raise_for_status(r).raised # "None" THEN raise_for_status(r)
    ELSE Return(Len(splitlines(r.text)))

count_cdx_hits(r) ==
    IF requests_get(r).raised # "None" THEN requests_get(r)
    ELSE IF raise_for_status(r).raised # "None" THEN raise_for_status(r)
    ELSE Return(sum_nonblank(splitlines(r.text)))

\* the loop body of read_urls over the lines of the file
RECURSIVE read_urls_loop(_, _)
read_urls_loop(lines, cleaned) ==
    IF lines = <<>> THEN cleaned
    ELSE LET url == strip(Head(lines)) IN
         IF url = <<>>
         THEN read_urls_loop(Tail(lines), cleaned)
         ELSE read_urls_loop(Tail(lines), Append(cleaned, url))

read_urls(data) == read_urls_loop(file_lines(data), <<>>)

write_csv(rows) ==
    [written |-> TRUE,
     header |-> <<"url", "indexed", "versions", "replay_url">>,
     rows |-> rows,
     shown |-> <<>>]

\* variant: except requests.HTTPError, which lets a timeout through
except_HTTPError_only(e) == e = "HTTPError"

\* except Exception: every exception count_cdx_hits raises is an Exception
except_Exception(e) == e \in {"Timeout", "ConnectionError", "HTTPError"}

\* variant: the list is walked from its end
enumerate_at_reversed(list, k) == list[Len(list) + 1 - k]

\* for url in urls / for i, url in enumerate(urls, start=1): the item of pass k
enumerate_at(list, k) == list[k]

\* variant: n >= 0 in place of n > 0
cli_row_yes_when_nonneg(url, n) ==
    <<url, IF n >= 0 THEN "YES" ELSE "NO", n, build_replay_url(url)>>

cli_row(url, n) ==
    <<url, IF n > 0 THEN "YES" ELSE "NO", n, build_replay_url(url)>>

\* lines 142-146 and 149-153 of main: the lines of the uploaded file, then
\* the lines of the text area
RECURSIVE main_append_lines(_, _)
main_append_lines(lines, list) ==
    IF lines = <<>> THEN list
    ELSE LET line == strip(Head(lines)) IN
         IF line # <<>>
         THEN main_append_lines(Tail(lines), Append(list, line))
         ELSE main_append_lines(Tail(lines), list)

\* variant: the text area is read before the uploaded file
main_collect_paste_first(file, pasted) ==
    LET from_paste == IF strip(pasted) # <<>>
                      THEN main_append_lines(splitlines(pasted), <<>>)
                      ELSE <<>>
    IN  IF file.uploaded
        THEN main_append_lines(file_lines(file.data), from_paste)
        ELSE from_paste

main_collect(file, pasted) ==
    LET from_file == IF file.uploaded
                     THEN main_append_lines(file_lines(file.data), <<>>)
                     ELSE <<>>
    IN  IF strip(pasted) # <<>>
        THEN main_append_lines(splitlines(pasted), from_file)
        ELSE from_file

\* variant: the row keeps the query URL in place of the input URL
main_row_stores_cdx_url(url, n) ==
    [URL |-> build_cdx_url(url),
     Indexed |-> IF n > 0 THEN "YES" ELSE "NO",
     Versions |-> n,
     Replay |-> build_replay_url(url)]

\* variant: a link only for an indexed URL
main_row_replay_if_indexed(url, n) ==
    [URL |-> url,
     Indexed |-> IF n > 0 THEN "YES" ELSE "NO",
     Versions |-> n,
     Replay |-> IF n > 0 THEN build_replay_url(url) ELSE <<>>]

main_row(url, n) ==
    [URL |-> url,
     Indexed |-> IF n > 0 THEN "YES" ELSE "NO",
     Versions |-> n,
     Replay |-> build_replay_url(url)]

\* variant: the bar is moved by the zero-based index
progress_event_zero_based(k, total) == <<k - 1, total>>

\* progress_bar.progress(i / total, text=f"{i} / {total} URLer slått opp")
progress_event(k, total) == <<k, total>>

main_report(rows) ==
    [written |-> TRUE,
     header |-> <<"URL", "Indexed", "Versions", "Replay">>,
     rows |-> rows,
     shown |-> SubSeq(rows, 1, Min(Len(rows), max_rows_to_display))]

---------------------------------------------------------------------------
(* check-URLs-count.py *)

check_build_cdx_url(original_url) ==
    <<CDX_BASE, "?", "url", "=">> \o quote_plus(original_url)
        \o <<"&", "output", "=", "json">>

\* variant: the status of the response is not looked at
check_count_cdx_hits_no_status(r) ==
    IF requests_get(r).raised # "None" THEN requests_get(r)
    ELSE Return(sum_nonblank(splitlines(r.text)))

check_count_cdx_hits(r) ==
    IF requests_get(r).raised # "None" THEN requests_get(r)
    ELSE IF raise_for_status(r).raised # "None" THEN raise_for_status(r)
    ELSE Return(sum_nonblank(splitlines(r.text)))

RECURSIVE check_read_urls_loop(_, _)
check_read_urls_loop(lines, cleaned) ==
    IF lines = <<>> THEN cleaned
    ELSE LET url == strip(Head(lines)) IN
         IF url = <<>>
         THEN check_read_urls_loop(Tail(lines), cleaned)
         ELSE check_read_urls_loop(Tail(lines), Append(cleaned, url))

check_read_urls(data) == check_read_urls_loop(file_lines(data), <<>>)

check_write_csv(rows) ==
    [written |-> TRUE, header |-> <<"url", "count">>, rows |-> rows, shown |-> <<>>]

check_row(url, n) == <<url, n>>

---------------------------------------------------------------------------
(* State after start-up *)

NoReport == [written |-> FALSE, header |-> <<>>, rows |-> <<>>, shown |-> <<>>]

Init ==
    /\ entry \in {"main", "cli_main", "check_main"}
    /\ pc = "start"
    /\ f \in {[uploaded |-> u, data |-> d] :
                 u \in BOOLEAN, d \in Texts(InputTokens, MaxFile)}
    /\ f.uploaded \/ (entry = "main" /\ f.data = <<>>)
    /\ pasted_urls_text \in Texts(InputTokens, MaxPaste)
    /\ entry # "main" => pasted_urls_text = <<>>
    /\ urls = <<>>
    /\ i = 0
    /\ resp = NoResponse
    /\ count = 0
    /\ results = <<>>
    /\ progress = <<>>
    /\ requests = <<>>
    /\ raised = <<>>
    /\ messages = <<>>
    /\ report = NoReport

\* the file object after the loop over its lines: everything is read
AtEOF(file) == [file EXCEPT !.data = <<>>]

---------------------------------------------------------------------------
(* app.py, main: the Streamlit page *)

\* lines 133-136: the button was not pressed, the run of the script ends
MainNotStarted ==
    /\ entry = "main" /\ pc = "start"
    /\ pc' = "returned"
    /\ UNCHANGED <<entry, f, pasted_urls_text, urls, i, resp, count, results,
                   progress, requests, raised, messages, report>>

\* lines 138-166: the URLs are collected; without URLs a warning and return
MainCollect ==
    /\ entry = "main" /\ pc = "start"
    /\ urls' = main_collect(f, pasted_urls_text)
    /\ f' = AtEOF(f)
    /\ IF urls' = <<>>
       THEN /\ messages' = Append(messages, <<"warning", 0>>)
            /\ pc' = "returned"
       ELSE /\ messages' = messages \o <<<<"info", Len(urls')>>, <<"progress", 0>>>>
            /\ pc' = "loop"
    /\ UNCHANGED <<entry, pasted_urls_text, i, resp, count, results,
                   progress, requests, raised, report>>

\* lines 168-175: the next URL is taken and looked up
MainLookup ==
    /\ entry = "main" /\ pc = "loop" /\ i < Len(urls)
    /\ \E r \in Responses :
         LET url == enumerate_at(urls, i + 1)
             cdx_url == build_cdx_url(url)
             res == count_cdx_hits(r)
         IN  /\ i' = i + 1
             /\ requests' = Append(requests, cdx_url)
             /\ resp' = r
             /\ IF res.raised = "None"
                THEN /\ count' = res.value
                     /\ raised' = Append(raised, FALSE)
                     /\ pc' = "called"
                ELSE IF except_Exception(res.raised)
                THEN /\ count' = 0
                     /\ raised' = Append(raised, TRUE)
                     /\ pc' = "called"
                ELSE /\ pc' = "crashed"
                     /\ UNCHANGED <<count, raised>>
    /\ UNCHANGED <<entry, f, pasted_urls_text, urls, results, progress,
                   messages, report>>

\* lines 177-193: the row is recorded and the progress bar moved
MainAppend ==
    /\ entry = "main" /\ pc = "called"
    /\ results' = Append(results, main_row(enumerate_at(urls, i), count))
    /\ progress' = Append(progress, progress_event(i, Len(urls)))
    /\ resp' = NoResponse
    /\ pc' = "loop"
    /\ UNCHANGED <<entry, f, pasted_urls_text, urls, i, count, requests,
                   raised, messages, report>>

\* lines 195-236: the table and the Excel sheet
MainReport ==
    /\ entry = "main" /\ pc = "loop" /\ i = Len(urls)
    /\ messages' = Append(messages, <<"success", Len(urls)>>)
    /\ report' = main_report(results)
    /\ pc' = "finished"
    /\ UNCHANGED <<entry, f, pasted_urls_text, urls, i, resp, count, results,
                   progress, requests, raised>>

---------------------------------------------------------------------------
(* app.py, cli_main *)

\* lines 85-86
CliReadUrls ==
    /\ entry = "cli_main" /\ pc = "start"
    /\ urls' = read_urls(f.data)
    /\ f' = AtEOF(f)
    /\ pc' = "loop"
    /\ UNCHANGED <<entry, pasted_urls_text, i, resp, count, results, progress,
                   requests, raised, messages, report>>

\* lines 88-95
CliLookup ==
    /\ entry = "cli_main" /\ pc = "loop" /\ i < Len(urls)
    /\ \E r \in Responses :
         LET url == enumerate_at(urls, i + 1)
             cdx_url == build_cdx_url(url)
             res == count_cdx_hits(r)
         IN  /\ i' = i + 1
             /\ requests' = Append(requests, cdx_url)
             /\ resp' = r
             /\ IF res.raised = "None"
                THEN /\ count' = res.value
                     /\ raised' = Append(raised, FALSE)
                     /\ messages' = messages
                     /\ pc' = "called"
                ELSE IF except_Exception(res.raised)
                THEN /\ count' = 0
                     /\ raised' = Append(raised, TRUE)
                     /\ messages' = Append(messages, <<"Error on", cdx_url, res.raised>>)
                     /\ pc' = "called"
                ELSE /\ pc' = "crashed"
                     /\ UNCHANGED <<count, raised, messages>>
    /\ UNCHANGED <<entry, f, pasted_urls_text, urls, results, progress, report>>

\* lines 97-99
CliAppend ==
    /\ entry = "cli_main" /\ pc = "called"
    /\ results' = Append(results, cli_row(enumerate_at(urls, i), count))
    /\ resp' = NoResponse
    /\ pc' = "loop"
    /\ UNCHANGED <<entry, f, pasted_urls_text, urls, i, count, progress,
                   requests, raised, messages, report>>

\* lines 101-102
CliWrite ==
    /\ entry = "cli_main" /\ pc = "loop" /\ i = Len(urls)
    /\ report' = write_csv(results)
    /\ messages' = Append(messages, <<"Ferdig", Len(results)>>)
    /\ pc' = "finished"
    /\ UNCHANGED <<entry, f, pasted_urls_text, urls, i, resp, count, results,
                   progress, requests, raised>>

---------------------------------------------------------------------------
(* check-URLs-count.py, main *)

\* lines 71-72
CheckReadUrls ==
    /\ entry = "check_main" /\ pc = "start"
    /\ urls' = check_read_urls(f.data)
    /\ f' = AtEOF(f)
    /\ pc' = "loop"
    /\ UNCHANGED <<entry, pasted_urls_text, i, resp, count, results, progress,
                   requests, raised, messages, report>>

\* lines 74-80
CheckLookup ==
    /\ entry = "check_main" /\ pc = "loop" /\ i < Len(urls)
    /\ \E r \in Responses :
         LET url == enumerate_at(urls, i + 1)
             cdx_url == check_build_cdx_url(url)
             res == check_count_cdx_hits(r)
         IN  /\ i' = i + 1
             /\ requests' = Append(requests, cdx_url)
             /\ resp' = r
             /\ IF res.raised = "None"
                THEN /\ count' = res.value
                     /\ raised' = Append(raised, FALSE)
                     /\ messages' = messages
                     /\ pc' = "called"
                ELSE IF except_Exception(res.raised)
                THEN /\ count' = 0
                     /\ raised' = Append(raised, TRUE)
                     /\ messages' = Append(messages, <<"Error on", cdx_url, res.raised>>)
                     /\ pc' = "called"
                ELSE /\ pc' = "crashed"
                     /\ UNCHANGED <<count, raised, messages>>
    /\ UNCHANGED <<entry, f, pasted_urls_text, urls, results, progress, report>>

\* line 82
CheckAppend ==
    /\ entry = "check_main" /\ pc = "called"
    /\ results' = Append(results, check_row(enumerate_at(urls, i), count))
    /\ resp' = NoResponse
    /\ pc' = "loop"
    /\ UNCHANGED <<entry, f, pasted_urls_text, urls, i, count, progress,
                   requests, raised, messages, report>>

\* lines 84-85
CheckWrite ==
    /\ entry = "check_main" /\ pc = "loop" /\ i = Len(urls)
    /\ report' = check_write_csv(results)
    /\ messages' = Append(messages, <<"Ferdig", Len(results)>>)
    /\ pc' = "finished"
    /\ UNCHANGED <<entry, f, pasted_urls_text, urls, i, resp, count, results,
                   progress, requests, raised>>

---------------------------------------------------------------------------

Next ==
    \/ MainNotStarted
    \/ MainCollect
    \/ MainLookup
    \/ MainAppend
    \/ MainReport
    \/ CliReadUrls
    \/ CliLookup
    \/ CliAppend
    \/ CliWrite
    \/ CheckReadUrls
    \/ CheckLookup
    \/ CheckAppend
    \/ CheckWrite

Spec == Init /\ [][Next]_vars

---------------------------------------------------------------------------
(* Reading the rows of the three programs *)

RowUrl(r) == IF entry = "main" THEN r.URL ELSE r[1]

RowCount(r) ==
    IF entry = "main" THEN r.Versions
    ELSE IF entry = "cli_main" THEN r[3]
    ELSE r[2]

FourColumns == entry \in {"main", "cli_main"}

RowIndexed(r) == IF entry = "main" THEN r.Indexed ELSE r[2]

RowReplay(r) == IF entry = "main" THEN r.Replay ELSE r[4]

RowHasReplay(r) == FourColumns /\ RowReplay(r) # <<>>

Rows == 1..Len(results)

\* the lookup failed: timeout, network error or a non-success HTTP status
IsFailure(r) ==
    \/ r.kind \in {"Timeout", "ConnectionError"}
    \/ r.kind = "response" /\ ~(r.status_code \in 200..399)

\* position k of text t holds the first non-whitespace token of its line
FirstInk(t, k) ==
    /\ t[k] \notin Whitespace
    /\ \A j \in 1..(k - 1) :
         (\A m \in j..(k - 1) : t[m] # NL) => t[j] \in Whitespace

\* position e holds the last non-whitespace token of the line of position k
LastInk(t, k, e) ==
    /\ e \in k..Len(t)
    /\ t[e] \notin Whitespace
    /\ \A m \in k..e : t[m] # NL
    /\ \A j \in (e + 1)..Len(t) :
         (\A m \in e..j : t[m] # NL) => t[j] \in Whitespace

InkLines(t) == {k \in 1..Len(t) : FirstInk(t, k)}

\* the lines of t that hold, between blanks, exactly one complete record
RecordLines(t) ==
    {k \in InkLines(t) : t[k] = "R" /\ LastInk(t, k, k)}

---------------------------------------------------------------------------
(* C1 *)

\* C1: the rows recorded so far are, in order, one per input URL taken so
\* far, the row's url field is the input URL itself, and the finished run
\* has exactly one row per input URL (duplicates included) in its report.
C1_OneRowPerUrlInOrder ==
    /\ Len(results) <= Len(urls)
    /\ \A k \in Rows : RowUrl(results[k]) = urls[k]
    /\ pc \in {"loop", "finished"} => Len(results) = i
    /\ pc = "finished" => (Len(results) = Len(urls) /\ report.rows = results)

\* two identical input URLs, two rows, each with the count of its own query
C1_Witness ==
    /\ pc = "finished"
    /\ Len(urls) = 2
    /\ urls[1] = urls[2]
    /\ RowUrl(results[1]) = RowUrl(results[2])
    /\ RowCount(results[1]) # RowCount(results[2])

---------------------------------------------------------------------------
(* C2 *)

C2_State ==
    /\ pc # "crashed"
    /\ (pc = "called" /\ IsFailure(resp)) => (count = 0 /\ raised[i])
    /\ \A k \in Rows :
         raised[k] => /\ RowCount(results[k]) = 0
                      /\ FourColumns => RowIndexed(results[k]) = "NO"
    /\ pc = "finished" => (Len(results) = Len(urls) /\ Len(requests) = Len(urls))
    /\ pc \in {"loop", "called"} => ENABLED Next

C2_Step ==
    /\ Len(results) <= Len(results')
    /\ SubSeq(results', 1, Len(results)) = results
    /\ (pc = "called" /\ IsFailure(resp)) =>
         (pc' = "loop" /\ Len(results') = i /\ RowCount(results'[i]) = 0
             /\ RowUrl(results'[i]) = urls[i])

\* C2: a failed lookup leaves count 0 and not-indexed in the row of its URL,
\* never ends the run, leaves the earlier rows as they are, and the run goes
\* on until every URL has been looked up and has its row.
C2_FailureIsolated == [](C2_State) /\ [][C2_Step]_vars

\* the second of three lookups failed, the first and the third found captures
C2_Witness ==
    /\ pc = "finished"
    /\ Len(urls) = 3
    /\ ~raised[1] /\ raised[2] /\ ~raised[3]
    /\ RowCount(results[1]) > 0
    /\ RowCount(results[2]) = 0
    /\ RowCount(results[3]) > 0

---------------------------------------------------------------------------
(* C3 *)

\* C3 as stated: the count of an answered lookup is the number of lines that
\* are a valid JSON object with a non-empty timestamp.
C3_CountIsValidRecords ==
    (pc = "called" /\ ~IsFailure(resp)) =>
        count = Cardinality(RecordLines(resp.text))

\* C3, amended: the count of an answered lookup is the number of lines that
\* are not blank once stripped, whatever they hold; blank lines add nothing
\* and no content of a line raises an error.
C3_CountIsNonBlankLines ==
    (pc = "called" /\ ~IsFailure(resp)) =>
        /\ count = Cardinality(InkLines(resp.text))
        /\ ~raised[i]

\* a body of a record line and a malformed line: count 2
C3_Witness ==
    /\ pc = "called"
    /\ resp.kind = "response" /\ resp.status_code = 200
    /\ resp.text = <<"R", NL, "x">>
    /\ count = 2

---------------------------------------------------------------------------
(* C4 *)

\* C4 as stated: a row has a replay URL exactly when its count is above 0.
C4_ReplayIffIndexed ==
    \A k \in Rows : RowHasReplay(results[k]) <=> RowCount(results[k]) > 0

\* C4, amended: every row of main and of cli_main has a replay URL, whatever
\* its count, also after a failed lookup; the rows of check-URLs-count.py
\* have no replay URL.
C4_ReplayInEveryFourColumnRow ==
    \A k \in Rows : RowHasReplay(results[k]) <=> FourColumns

\* a row of main for a failed lookup, count 0, with its replay URL
C4_Witness ==
    /\ entry = "main"
    /\ Len(results) >= 1
    /\ raised[1]
    /\ results[1].Versions = 0
    /\ results[1].Replay # <<>>

---------------------------------------------------------------------------
(* C5 *)

\* C5: the progress events of main are (1,n), (2,n), ... one per recorded
\* row, in this order, and the finished run has emitted n of them.
C5_ProgressEvents ==
    entry = "main" =>
        /\ progress = [k \in 1..Len(results) |-> <<k, Len(urls)>>]
        /\ pc = "finished" => Len(progress) = Len(urls)

\* three URLs, the second lookup failed, the last event is (3,3)
C5_Witness ==
    /\ entry = "main"
    /\ pc = "finished"
    /\ Len(urls) = 3
    /\ raised[2]
    /\ progress = <<<<1, 3>>, <<2, 3>>, <<3, 3>>>>

---------------------------------------------------------------------------
(* C6 *)

\* the timestamp a record token carries
Timestamps == {"20190101000000"}

\* C6 as stated: a replay link is base, earliest timestamp, "/", URL.
C6_ReplayHasTimestamp ==
    \A k \in Rows :
        RowHasReplay(results[k]) =>
            \E ts \in Timestamps :
                RowReplay(results[k]) = <<REPLAY_BASE, ts, "/">> \o urls[k]

\* C6, amended: a replay link is the fixed replay base followed by the
\* original URL as it was given, and nothing else: no timestamp.
C6_ReplayIsBaseThenUrl ==
    \A k \in Rows :
        FourColumns =>
            RowReplay(results[k]) =
                <<"https://nettarkivet.nb.no/search/*/">> \o urls[k]

\* an indexed URL with a blank inside: the blank is in the link as it is
C6_Witness ==
    /\ FourColumns
    /\ Len(results) >= 1
    /\ RowCount(results[1]) > 0
    /\ urls[1] = <<"a", SP, "a">>
    /\ RowReplay(results[1])[3] = SP

---------------------------------------------------------------------------
(* C7 *)

\* C7: in the rows of main and cli_main indexed is "YES" exactly for
\* versions above 0 and "NO" exactly for versions 0, and versions is the
\* count of the lookup of that URL, 0 when it failed.
C7_IndexedIffVersions ==
    FourColumns =>
        /\ \A k \in Rows :
             /\ RowCount(results[k]) \in Nat
             /\ RowIndexed(results[k]) \in {"YES", "NO"}
             /\ RowIndexed(results[k]) = "YES" <=> RowCount(results[k]) > 0
             /\ RowIndexed(results[k]) = "NO" <=> RowCount(results[k]) = 0
             /\ raised[k] => RowCount(results[k]) = 0
        /\ (pc = "loop" /\ i > 0) => RowCount(results[i]) = count

\* cli_main wrote a "YES" row with 2 versions and a "NO" row with 0
C7_Witness ==
    /\ entry = "cli_main"
    /\ pc = "finished"
    /\ Len(results) = 2
    /\ results[1][2] = "YES" /\ results[1][3] = 2
    /\ results[2][2] = "NO" /\ results[2][3] = 0

---------------------------------------------------------------------------
(* C8 *)

\* the query URL of input URL u, written out
QueryOf(u) ==
    <<"https://nettarkivet.nb.no/search/cdx", "?", "url", "=">>
        \o [j \in 1..Len(u) |-> IF u[j] = SP THEN "+" ELSE u[j]]
        \o <<"&", "output", "=", "json">>

\* C8: the requests issued so far are, in input order, one per URL occurrence
\* taken so far; a request is outstanding only between the taking of a URL
\* and the recording of its row, so the next request follows that row; the
\* finished run has issued exactly one request per input URL occurrence,
\* failed lookups and repeated URLs included.
C8_OneRequestPerUrlInOrder ==
    /\ Len(requests) = i
    /\ Len(requests) <= Len(urls)
    /\ \A k \in 1..Len(requests) : requests[k] = QueryOf(urls[k])
    /\ Len(raised) = Len(requests)
    /\ pc = "called" => Len(requests) = Len(results) + 1
    /\ pc # "called" => Len(requests) = Len(results)
    /\ pc = "finished" => Len(requests) = Len(urls)

\* the same URL twice, the first lookup failed: two requests, the same query
\* twice, and the second one answered
C8_Witness ==
    /\ pc = "finished"
    /\ Len(urls) = 2
    /\ urls[1] = urls[2]
    /\ raised[1] /\ ~raised[2]
    /\ Len(requests) = 2
    /\ requests[1] = requests[2]
    /\ RowCount(results[2]) > 0

---------------------------------------------------------------------------
(* C9 *)

\* the input as one text: the lines of the file, then the pasted lines
InputText == f.data \o <<NL>> \o pasted_urls_text

\* the number of non-blank lines of t that start at or before position k
Rank(t, k) == Cardinality({j \in InkLines(t) : j <= k})

C9_State ==
    /\ \A k \in 1..Len(urls) :
         /\ urls[k] # <<>>
         /\ urls[k][1] \notin Whitespace
         /\ urls[k][Len(urls[k])] \notin Whitespace
    /\ urls = <<>> => (requests = <<>> /\ results = <<>> /\ report.rows = <<>>)

\* the step that hands the URL list to the loop (or finds it empty)
C9_Step ==
    (pc = "start" /\ (pc' = "loop" \/ messages' # messages)) =>
        /\ Len(urls') = Cardinality(InkLines(InputText))
        /\ \A k \in InkLines(InputText) :
             \E e \in k..Len(InputText) :
                /\ LastInk(InputText, k, e)
                /\ urls'[Rank(InputText, k)] = SubSeq(InputText, k, e)

\* C9: the URL list holds, in the order of the input and with repetitions
\* kept, the non-blank lines of the file and then those of the text area,
\* each stripped; no entry is empty or starts or ends with whitespace; an
\* empty list leads to no lookup and no row.
C9_CleanUrlList == [](C9_State) /\ [][C9_Step]_vars

\* a two-character line from the file, then the pasted line without its blank
C9_Witness ==
    /\ entry = "main"
    /\ pc = "loop"
    /\ pasted_urls_text = <<SP, "a">>
    /\ urls = <<<<"a", "a">>, <<"a">>>>

---------------------------------------------------------------------------
(* C10 *)

\* the (url, count) pair of a row
Pair(r) == <<RowUrl(r), RowCount(r)>>

\* the pair check-URLs-count.py records for URL u when the index answers r
CheckPair(u, r) ==
    LET res == check_count_cdx_hits(r) IN
    check_row(u, IF res.raised = "None" THEN res.value ELSE 0)

C10_Step ==
    (pc = "called" /\ pc' = "loop") =>
        /\ Len(results') = i
        /\ Pair(results'[i]) = CheckPair(urls[i], resp)

\* C10: whichever of the three programs runs, the row it records for the
\* i-th URL carries the (url, count) pair check-URLs-count.py records for
\* that URL and that answer of the index, and the rows before it stay; so
\* on the same list and the same answers the three sequences of pairs agree.
C10_EntryPointsAgree ==
    /\ [][C10_Step]_vars
    /\ [][SubSeq(results', 1, Len(results)) = results]_vars
    /\ [](pc = "finished" => Len(results) = Len(urls))

\* cli_main finished two URLs: two captures for the first, the second failed
C10_Witness ==
    /\ entry = "cli_main"
    /\ pc = "finished"
    /\ Len(urls) = 2
    /\ ~raised[1] /\ raised[2]
    /\ Pair(results[1]) = <<urls[1], 2>>
    /\ Pair(results[2]) = <<urls[2], 0>>

====
